---- MODULE Spec2Model ----
(***************************************************************************)
(* Model of src/app.py: the loader cargar_datos, the module-level frame    *)
(* df, and the Dash callback actualizar_dashboard with its three chart     *)
(* builders.                                                               *)
(*                                                                         *)
(* A pandas DataFrame is a record [columns, rows]: the column labels in    *)
(* order and the rows as sequences of cells aligned with them.  A column   *)
(* label is the sequence of its characters, so that str.lower() and        *)
(* str.strip() are computed character by character.  A cell is a record    *)
(* [t, n, d, s]: an integer ("int", n), a float kept as the exact          *)
(* fraction n/d ("float"; "nan" and "inf" are the two non-finite floats    *)
(* numpy produces for x/0), a string ("str", s) or SQL NULL / None         *)
(* ("null").  A Python exception is a value with a non-empty err field.    *)
(*                                                                         *)
(* Scope of the inputs: a result set spells each required label in one of  *)
(* three ways or lacks it, and never carries two labels that normalize to  *)
(* the same name; its numeric columns hold integers (int64 sums, small     *)
(* enough not to overflow) or text; NULL occurs in the ciudad column.      *)
(***************************************************************************)
EXTENDS Integers, Sequences, FiniteSets, TLC

VARIABLES
    fase,      \* "import": line 69 not yet executed; "sirviendo": app running
    entrada,   \* what cargar_datos meets: environment and query outcome
    df,        \* the module-level DataFrame bound at line 69
    df0,       \* history: the value cargar_datos returned
    req        \* per worker thread: the callback invocation in progress

vars == <<fase, entrada, df, df0, req>>

(***************************************************************************)
(* Bounds of the model.                                                    *)
(***************************************************************************)
MaxFilas == 2        \* rows of a query result met by the serving models
MaxFilasCarga == 1   \* rows of a query result in the loader model
MaxDesvios == 2      \* columns of a query result whose label is not exact
MaxSel == 1          \* values in one dropdown's selection list
NumHilos == 2        \* worker threads serving callbacks concurrently

(***************************************************************************)
(* Cells.                                                                  *)
(***************************************************************************)
N(n) == [t |-> "int", n |-> n, d |-> 1, s |-> ""]
S(s) == [t |-> "str", n |-> 0, d |-> 1, s |-> s]
NULO == [t |-> "null", n |-> 0, d |-> 1, s |-> ""]
NAN == [t |-> "nan", n |-> 0, d |-> 1, s |-> ""]
INF == [t |-> "inf", n |-> 0, d |-> 1, s |-> ""]

Abs(x) == IF x < 0 THEN -x ELSE x

RECURSIVE Gcd(_, _)
Gcd(a, b) == IF b = 0 THEN a ELSE Gcd(b, a % b)

\* The float n/d (d > 0), kept exact and in lowest terms.
Frac(n, d) ==
    LET g == Gcd(Abs(n), d)
    IN  [t |-> "float", n |-> n \div g, d |-> d \div g, s |-> ""]

Range(f) == {f[i] : i \in DOMAIN f}

RECURSIVE SeqsHasta(_, _)
SeqsHasta(A, k) ==
    IF k = 0 THEN {<<>>}
    ELSE LET prev == SeqsHasta(A, k - 1)
         IN  prev \cup {Append(q, a) : q \in {p \in prev : Len(p) = k - 1}, a \in A}

(***************************************************************************)
(* Column labels, and str.lower() / str.strip() on them (line 46).         *)
(***************************************************************************)
c_analisis == <<"a", "n", "a", "l", "i", "s", "i", "s">>
c_total_po == <<"t", "o", "t", "a", "l", "_", "p", "o">>
c_ciudad == <<"c", "i", "u", "d", "a", "d">>
c_aliado == <<"a", "l", "i", "a", "d", "o">>
c_region == <<"r", "e", "g", "i", "ó", "n">>
c_porcentaje == <<"p", "o", "r", "c", "e", "n", "t", "a", "j", "e">>

Mayusculas == <<"A", "C", "D", "E", "G", "I", "L", "N", "O", "P", "R", "S", "T", "U", "Ó">>
Minusculas == <<"a", "c", "d", "e", "g", "i", "l", "n", "o", "p", "r", "s", "t", "u", "ó">>

lower_char(ch) ==
    IF \E i \in DOMAIN Mayusculas : Mayusculas[i] = ch
    THEN Minusculas[CHOOSE i \in DOMAIN Mayusculas : Mayusculas[i] = ch]
    ELSE ch

upper_char(ch) ==
    IF \E i \in DOMAIN Minusculas : Minusculas[i] = ch
    THEN Mayusculas[CHOOSE i \in DOMAIN Minusculas : Minusculas[i] = ch]
    ELSE ch

str_lower(name) == [i \in DOMAIN name |-> lower_char(name[i])]

RECURSIVE lstrip(_)
lstrip(name) ==
    IF name # <<>> /\ Head(name) = " " THEN lstrip(Tail(name)) ELSE name

RECURSIVE rstrip(_)
rstrip(name) ==
    IF name # <<>> /\ name[Len(name)] = " "
    THEN rstrip(SubSeq(name, 1, Len(name) - 1))
    ELSE name

str_strip(name) == rstrip(lstrip(name))

\* df.columns.str.lower().str.strip()
normalizar_columnas(cols) == [i \in DOMAIN cols |-> str_strip(str_lower(cols[i]))]

(***************************************************************************)
(* DataFrame access.                                                       *)
(***************************************************************************)
\* No frame: df before line 69 runs, and the value of a call that raised.
FrameSinCargar == [columns |-> <<>>, rows |-> <<>>]

\* Position of a label among the columns; 0 when absent (a KeyError).
ColIndex(d, name) ==
    IF \E i \in DOMAIN d.columns : d.columns[i] = name
    THEN CHOOSE i \in DOMAIN d.columns : d.columns[i] = name
    ELSE 0

\* d[name]: the column as a sequence of cells (name is a column of d).
Col(d, name) == [i \in DOMAIN d.rows |-> d.rows[i][ColIndex(d, name)]]

RECURSIVE SumaInt(_)
SumaInt(cells) ==
    IF cells = <<>> THEN 0
    ELSE (IF Head(cells).t = "int" THEN Head(cells).n ELSE 0) + SumaInt(Tail(cells))

\* Series.sum(): NULLs are skipped; a text cell makes the sum, or the
\* arithmetic on it that follows, raise TypeError.
Suma(cells) ==
    IF \E i \in DOMAIN cells : cells[i].t = "str"
    THEN [err |-> "TypeError", val |-> 0]
    ELSE [err |-> "", val |-> SumaInt(cells)]

\* a / b * 100 on numpy integers: x/0 is inf or nan, never an exception.
Cociente100(a, b) ==
    IF b = 0 THEN (IF a = 0 THEN NAN ELSE INF)
    ELSE IF b > 0 THEN Frac(a * 100, b) ELSE Frac(-(a * 100), -b)

\* d with a new last column holding the same cell in every row (d[name] = v).
ConColumna(d, name, v) ==
    [columns |-> Append(d.columns, name),
     rows |-> [i \in DOMAIN d.rows |-> Append(d.rows[i], v)]]

(***************************************************************************)
(* cargar_datos (lines 14-66).                                             *)
(***************************************************************************)
required_columns == {c_analisis, c_total_po, c_ciudad, c_aliado, c_region}

\* sample_data (lines 55-61) as a frame.
sample_data ==
    [columns |-> <<c_analisis, c_total_po, c_ciudad, c_aliado, c_region>>,
     rows |-> << <<N(150), N(1000), S("Bogotá"), S("Aliado A"), S("Centro")>>,
                 <<N(200), N(1200), S("Medellín"), S("Aliado B"), S("Antioquia")>>,
                 <<N(180), N(1500), S("Cali"), S("Aliado C"), S("Valle")>> >>]

\* The except branch (lines 51-66).
df_backup ==
    ConColumna(sample_data, c_porcentaje,
               Cociente100(Suma(Col(sample_data, c_analisis)).val,
                           Suma(Col(sample_data, c_total_po)).val))

\* Lines 39-49 on the frame read_sql_query returned; err names the exception
\* raised inside the try block, "" when the frame is returned.
\* Line 47 on the frame g with normalized labels, a and p the two sums.  A
\* frame without rows has object columns, whose sums are the Python int 0,
\* and 0 / 0 raises.
con_porcentaje(g, a, p) ==
    IF a.err # "" \/ p.err # "" THEN [err |-> "TypeError", val |-> FrameSinCargar]
    ELSE IF g.rows = <<>> THEN [err |-> "ZeroDivisionError", val |-> FrameSinCargar]
    ELSE [err |-> "", val |-> ConColumna(g, c_porcentaje, Cociente100(a.val, p.val))]

\* Lines 46-47.
limpieza(g) == con_porcentaje(g, Suma(Col(g, c_analisis)), Suma(Col(g, c_total_po)))

limpiar(f) ==
    IF ~(required_columns \subseteq Range(f.columns))
    THEN [err |-> "ValueError", val |-> FrameSinCargar]
    ELSE limpieza([f EXCEPT !.columns = normalizar_columnas(f.columns)])

\* The try block (lines 15-49).
intentar_cargar(e) ==
    IF ~e.DATABASE_URL /\ e.RENDER THEN [err |-> "ValueError", val |-> FrameSinCargar]
    ELSE IF ~e.sql.ok THEN [err |-> "OperationalError", val |-> FrameSinCargar]
    ELSE limpiar([columns |-> e.sql.columns, rows |-> e.sql.rows])

\* Mutant: "except ValueError" in place of "except Exception".
try_except_solo_ValueError(r) ==
    IF r.err = "" THEN r.val ELSE IF r.err = "ValueError" THEN df_backup ELSE FrameSinCargar

\* try / except Exception: every exception ends in the except branch.
try_except(r) == IF r.err = "" THEN r.val ELSE df_backup

cargar_datos(e) == try_except(intentar_cargar(e))

(***************************************************************************)
(* What cargar_datos can meet: the environment (is DATABASE_URL set, is    *)
(* RENDER set) and the outcome of read_sql_query (an exception, or a       *)
(* result set with its column labels as the database spells them).         *)
(***************************************************************************)
\* Rows of mi_tabla, as (analisis, total_po, ciudad, aliado, región).
FilasValidas ==
    { <<N(150), N(1000), S("Bogotá"), S("Aliado A"), S("Centro")>>,
      <<N(0), N(0), S("Cali"), S("Aliado B"), S("Valle")>>,
      <<N(50), N(20), S("Bogotá"), S("Aliado B"), S("Centro")>>,
      <<N(10), N(40), NULO, S("Aliado A"), S("Valle")>> }

\* A row whose analisis column holds text.
FilaTexto == <<S("n/a"), N(10), S("Cali"), S("Aliado A"), S("Centro")>>

FilasTabla == FilasValidas \cup {FilaTexto}

\* Spellings of a label: 0 exact, 1 capitalized, 2 padded with blanks;
\* 3 stands for a result set without the column.
Variante(name, v) ==
    IF v = 1 THEN [name EXCEPT ![1] = upper_char(name[1])]
    ELSE IF v = 2 THEN <<" ">> \o name \o <<" ">>
    ELSE name

ColumnasTabla == <<c_analisis, c_total_po, c_ciudad, c_aliado, c_region>>

Configs ==
    {c \in [1..5 -> 0..3] : Cardinality({i \in 1..5 : c[i] # 0}) <= MaxDesvios}

RECURSIVE Proyectar(_, _, _)
Proyectar(row, c, i) ==
    IF i > Len(row) THEN <<>>
    ELSE (IF c[i] = 3 THEN <<>> ELSE <<row[i]>>) \o Proyectar(row, c, i + 1)

ResultSet(c, rows) ==
    [ok |-> TRUE,
     columns |-> Proyectar([i \in 1..5 |-> Variante(ColumnasTabla[i], c[i])], c, 1),
     rows |-> [i \in DOMAIN rows |-> Proyectar(rows[i], c, 1)]]

SqlFalla == [ok |-> FALSE, columns |-> <<>>, rows |-> <<>>]

Consultas(maxFilas) ==
    {SqlFalla} \cup {ResultSet(c, rows) : c \in Configs, rows \in SeqsHasta(FilasTabla, maxFilas)}

\* With RENDER set and no DATABASE_URL the query is never issued.
Entradas(maxFilas) ==
    {[DATABASE_URL |-> a[1], RENDER |-> a[2], sql |-> q] :
        a \in {<<TRUE, FALSE>>, <<TRUE, TRUE>>, <<FALSE, FALSE>>}, q \in Consultas(maxFilas)}
    \cup {[DATABASE_URL |-> FALSE, RENDER |-> TRUE, sql |-> SqlFalla]}

EntradaConsumida == [DATABASE_URL |-> FALSE, RENDER |-> FALSE, sql |-> SqlFalla]

(***************************************************************************)
(* pandas and Python helpers used by the callback.                         *)
(***************************************************************************)
\* Python's order on the strings of the model (code point order), as the
\* ascending list of them.
OrdenStr ==
    <<"Aliado A", "Aliado B", "Aliado C", "Antioquia", "Bogotá", "Cali",
      "Centro", "Medellín", "NoSuchRegion", "Valle", "n/a">>

Rango(s) == CHOOSE i \in DOMAIN OrdenStr : OrdenStr[i] = s

Menor(a, b) == Rango(a.s) < Rango(b.s)

RECURSIVE OrdenarCeldas(_)
OrdenarCeldas(cs) ==
    IF cs = {} THEN <<>>
    ELSE LET m == CHOOSE x \in cs : \A y \in cs : y = x \/ Menor(x, y)
         IN  <<m>> \o OrdenarCeldas(cs \ {m})

\* Series.unique(): the distinct cells in order of first appearance, None
\* included.
AppendNuevo(r, x) == IF x \in Range(r) THEN r ELSE Append(r, x)

RECURSIVE unique(_)
unique(cells) ==
    IF cells = <<>> THEN <<>>
    ELSE AppendNuevo(unique(SubSeq(cells, 1, Len(cells) - 1)), cells[Len(cells)])

\* sorted(xs): comparing None with a str raises TypeError; a list of fewer
\* than two elements is never compared.
sorted(xs) ==
    IF Len(xs) >= 2 /\ \E i \in DOMAIN xs : xs[i].t # "str"
    THEN [err |-> "TypeError", val |-> <<>>]
    ELSE [err |-> "", val |-> IF Len(xs) < 2 THEN xs ELSE OrdenarCeldas(Range(xs))]

\* A dropdown value as the callback receives it: None, a list of strings,
\* or (from a client that does not honour multi=True) a bare string.
Ninguno == [t |-> "none", l |-> <<>>, s |-> ""]
Lista(l) == [t |-> "list", l |-> l, s |-> ""]
Cadena(s) == [t |-> "str", l |-> <<>>, s |-> s]

\* bool(v) as in "if ciudad:".
Truthy(v) == (v.t = "list" /\ v.l # <<>>) \/ (v.t = "str" /\ v.s # "")

RECURSIVE SelectRows(_, _, _)
SelectRows(rows, k, vals) ==
    IF rows = <<>> THEN <<>>
    ELSE (IF Head(rows)[k].t = "str" /\ Head(rows)[k].s \in vals
          THEN <<Head(rows)>> ELSE <<>>) \o SelectRows(Tail(rows), k, vals)

\* d[d[name].isin(v)]: isin raises TypeError unless v is list-like; a NULL
\* cell is in no list of strings.
filtrar_isin(d, name, v) ==
    IF v.t # "list" THEN [err |-> "TypeError", val |-> d]
    ELSE [err |-> "",
          val |-> [d EXCEPT !.rows = SelectRows(d.rows, ColIndex(d, name), Range(v.l))]]

\* Mutant: "if v is not None" in place of "if v".
paso_filtro_no_None(r, name, v) ==
    IF r.err # "" \/ v.t = "none" THEN r ELSE filtrar_isin(r.val, name, v)

\* One "if v: df_filtrado = df_filtrado[...]" statement on a running result.
paso_filtro(r, name, v) ==
    IF r.err # "" \/ ~Truthy(v) THEN r ELSE filtrar_isin(r.val, name, v)

\* Lines 174-180.  df is the module-level frame after the statements,
\* df_filtrado the local one; df.copy() gives the local its own rows.
filtros_en_orden(d, ciudad, aliado, region) ==
    paso_filtro(paso_filtro(paso_filtro([err |-> "", val |-> d], c_region, region),
                            c_ciudad, ciudad),
                c_aliado, aliado)

\* Mutant: the filters rebind the module-level name.
con_global_reasignado(d, r) == [err |-> r.err, df |-> r.val, df_filtrado |-> r.val]

con_global(d, r) == [err |-> r.err, df |-> d, df_filtrado |-> r.val]

\* Mutant: the filters are applied to df itself, without the copy.
aplicar_filtros_sin_copia(d, ciudad, aliado, region) ==
    con_global_reasignado(d, filtros_en_orden(d, ciudad, aliado, region))

aplicar_filtros(d, ciudad, aliado, region) ==
    con_global(d, filtros_en_orden(d, ciudad, aliado, region))

\* Mutant: the division without its guard.
porcentaje_sin_guarda(analisis, total_po) == Cociente100(analisis, total_po)

\* Mutant: the ratio without the factor 100.
porcentaje_sin_cien(analisis, total_po) ==
    IF total_po > 0 THEN Frac(analisis, total_po) ELSE N(0)

\* Lines 183-186: the int 0 when total_po is not positive.
porcentaje_de(analisis, total_po) ==
    IF total_po > 0 THEN Cociente100(analisis, total_po) ELSE N(0)

\* d.groupby(key, as_index=False)['analisis'].sum(): one row (key, sum) per
\* distinct key, keys ascending; rows whose key is NULL are dropped.
\* The non-NULL cells of column k, ascending.
claves_de(rows, k) ==
    OrdenarCeldas({rows[i][k] : i \in {j \in DOMAIN rows : rows[j][k].t # "null"}})

Columna(rows, a) == [j \in DOMAIN rows |-> rows[j][a]]

\* Sum of column a over the rows whose column k is x.
suma_grupo(rows, k, a, x) == SumaInt(Columna(SelectRows(rows, k, {x.s}), a))

grupos(rows, k, a, keys) ==
    [i \in DOMAIN keys |-> <<keys[i], N(suma_grupo(rows, k, a, keys[i]))>>]

groupby_filas(rows, k, a) == grupos(rows, k, a, claves_de(rows, k))

groupby_sum(d, key) ==
    [columns |-> <<key, c_analisis>>,
     rows |-> groupby_filas(d.rows, ColIndex(d, key), ColIndex(d, c_analisis))]

(***************************************************************************)
(* Formatting.                                                             *)
(***************************************************************************)
\* The float n/d (n >= 0) rounded to tenths, half to even, as a count of
\* tenths.  The code rounds a binary double; the two agree except where
\* the double nearest to n/d falls on the other side of a tie.
RedondeoPar(q, r, d) ==
    IF 2 * r > d \/ (2 * r = d /\ q % 2 = 1) THEN q + 1 ELSE q

Decimas(n, d) == RedondeoPar((10 * n) \div d, (10 * n) % d, d)

ConSigno(n, t) ==
    (IF n < 0 /\ t > 0 THEN "-" ELSE "") \o ToString(t \div 10) \o "." \o ToString(t % 10)

\* "%.1f" of a cell.
Formato1f(c) ==
    IF c.t = "nan" THEN "nan"
    ELSE IF c.t = "inf" THEN "inf"
    ELSE ConSigno(c.n, Decimas(Abs(c.n), c.d))

Pad3(n) ==
    IF n < 10 THEN "00" \o ToString(n)
    ELSE IF n < 100 THEN "0" \o ToString(n) ELSE ToString(n)

RECURSIVE Miles(_)
Miles(n) == IF n < 1000 THEN ToString(n) ELSE Miles(n \div 1000) \o "," \o Pad3(n % 1000)

\* f"{n:,}" of an integer.
FormatoMiles(n) == IF n < 0 THEN "-" \o Miles(-n) ELSE Miles(n)

(***************************************************************************)
(* Chart builders (lines 224-298).  A figure keeps the trace's type, its   *)
(* x, y and text arrays, and the layout's title and y range.               *)
(***************************************************************************)
FiguraVacia ==
    [tipo |-> "", orientation |-> "", x |-> <<>>, y |-> <<>>, text |-> <<>>,
     title |-> "", yrange |-> <<>>]

\* Lines 227-245 on the grouped frame.
figura_barras(df_barras) ==
    [tipo |-> "bar", orientation |-> "h",
     x |-> Col(df_barras, c_analisis), y |-> Col(df_barras, c_ciudad),
     text |-> Col(df_barras, c_analisis),
     title |-> "Análisis por Ciudad", yrange |-> <<>>]

crear_grafico_barras(d) == figura_barras(groupby_sum(d, c_ciudad))

\* Lines 252-269 on the grouped frame.
figura_lineas(df_lineas) ==
    [tipo |-> "scatter", orientation |-> "",
     x |-> Col(df_lineas, c_aliado), y |-> Col(df_lineas, c_analisis),
     text |-> <<>>,
     title |-> "Análisis por Aliado", yrange |-> <<>>]

crear_grafico_lineas(d) == figura_lineas(groupby_sum(d, c_aliado))

\* Line 276: the grouped frame g with its porcentaje column.
con_columna_porcentaje(g, total) ==
    [columns |-> Append(g.columns, c_porcentaje),
     rows |-> [i \in DOMAIN g.rows |->
                 Append(g.rows[i],
                        IF total > 0 THEN Cociente100(g.rows[i][2].n, total) ELSE N(0))]]

\* Lines 275-276.
porcentaje_por_grupo(g) == con_columna_porcentaje(g, SumaInt(Col(g, c_analisis)))

\* Lines 274-276.
df_porcentaje_de(d) == porcentaje_por_grupo(groupby_sum(d, c_aliado))

\* .round(1).astype(str) + '%': the int 0 prints as "0".
texto_porcentaje(c) == S((IF c.t = "int" THEN ToString(c.n) ELSE Formato1f(c)) \o "%")

textos(pct) == [i \in DOMAIN pct |-> texto_porcentaje(pct[i])]

\* Lines 278-296 on the grouped frame.
figura_porcentaje(df_porcentaje) ==
    [tipo |-> "bar", orientation |-> "",
     x |-> Col(df_porcentaje, c_aliado), y |-> Col(df_porcentaje, c_porcentaje),
     text |-> textos(Col(df_porcentaje, c_porcentaje)),
     title |-> "Distribución Porcentual por Aliado", yrange |-> <<0, 100>>]

crear_grafico_porcentaje(d) == figura_porcentaje(df_porcentaje_de(d))

(***************************************************************************)
(* actualizar_dashboard (lines 171-219).                                   *)
(***************************************************************************)
\* [{'label': c, 'value': c} for c in sorted(d[name].unique())]
etiquetar(o) ==
    [err |-> o.err, val |-> [i \in DOMAIN o.val |-> [label |-> o.val[i], value |-> o.val[i]]]]

opciones(d, name) == etiquetar(sorted(unique(Col(d, name))))

\* The except branch's return (line 219).
salida_por_defecto ==
    [resultado_porcentaje |-> "0%", publico_objetivo |-> "0", cargas_presenze |-> "0",
     grafico_barras |-> FiguraVacia, grafico_lineas |-> FiguraVacia,
     grafico_barras_aliados |-> FiguraVacia,
     filtro_ciudad |-> <<>>, filtro_aliado |-> <<>>, filtro_region |-> <<>>]

\* No response sent yet.
SinSalida ==
    [resultado_porcentaje |-> "", publico_objetivo |-> "", cargas_presenze |-> "",
     grafico_barras |-> FiguraVacia, grafico_lineas |-> FiguraVacia,
     grafico_barras_aliados |-> FiguraVacia,
     filtro_ciudad |-> <<>>, filtro_aliado |-> <<>>, filtro_region |-> <<>>]

\* The callback's locals before it runs, and those a raise leaves unbound.
SinLocales ==
    [err |-> "", paso |-> "", df_filtrado |-> FrameSinCargar,
     total_po |-> 0, analisis |-> 0, porcentaje |-> N(0),
     fig_barras |-> FiguraVacia, fig_lineas |-> FiguraVacia,
     fig_barras_aliados |-> FiguraVacia]

\* Lines 183-197 on the filtered frame v, total_po and analisis its two
\* sums; d is the module-level frame.
metricas_y_graficos(d, v, total_po, analisis) ==
    IF total_po.err # "" \/ analisis.err # ""
    THEN [df |-> d,
          loc |-> [SinLocales EXCEPT !.err = "TypeError", !.paso = "metricas",
                                     !.df_filtrado = v]]
    ELSE [df |-> d,
          loc |-> [err |-> "", paso |-> "", df_filtrado |-> v,
                   total_po |-> total_po.val, analisis |-> analisis.val,
                   porcentaje |-> porcentaje_de(analisis.val, total_po.val),
                   fig_barras |-> crear_grafico_barras(v),
                   fig_lineas |-> crear_grafico_lineas(v),
                   fig_barras_aliados |-> crear_grafico_porcentaje(v)]]

\* Lines 182-197 after the filters: f is what lines 174-180 left.
tras_filtros(f) ==
    IF f.err # ""
    THEN [df |-> f.df,
          loc |-> [SinLocales EXCEPT !.err = f.err, !.paso = "filtro",
                                     !.df_filtrado = f.df_filtrado]]
    ELSE metricas_y_graficos(f.df, f.df_filtrado,
                             Suma(Col(f.df_filtrado, c_total_po)),
                             Suma(Col(f.df_filtrado, c_analisis)))

\* Lines 172-197: the callback up to the last chart.  In loc, err is the
\* exception that sent control to the except branch ("" if none) and paso
\* the step that raised it; df is the module-level frame afterwards.
calcular(d, sel) == tras_filtros(aplicar_filtros(d, sel.ciudad, sel.aliado, sel.region))

\* Mutant: a failure of the option lists empties them and keeps the rest.
retorno_parcial(loc, c, a, r) ==
    IF loc.err # "" THEN [err |-> loc.err, paso |-> loc.paso, salida |-> salida_por_defecto]
    ELSE [err |-> IF c.err # "" \/ a.err # "" \/ r.err # "" THEN "TypeError" ELSE "",
          paso |-> IF c.err # "" \/ a.err # "" \/ r.err # "" THEN "opciones" ELSE "",
          salida |-> [resultado_porcentaje |-> Formato1f(loc.porcentaje) \o "%",
                      publico_objetivo |-> FormatoMiles(loc.total_po),
                      cargas_presenze |-> FormatoMiles(loc.analisis),
                      grafico_barras |-> loc.fig_barras,
                      grafico_lineas |-> loc.fig_lineas,
                      grafico_barras_aliados |-> loc.fig_barras_aliados,
                      filtro_ciudad |-> c.val, filtro_aliado |-> a.val,
                      filtro_region |-> r.val]]

\* Lines 204-219 given the three option lists.
retorno(loc, c, a, r) ==
    IF loc.err # "" THEN [err |-> loc.err, paso |-> loc.paso, salida |-> salida_por_defecto]
    ELSE IF c.err # "" \/ a.err # "" \/ r.err # ""
    THEN [err |-> "TypeError", paso |-> "opciones", salida |-> salida_por_defecto]
    ELSE [err |-> "", paso |-> "",
          salida |-> [resultado_porcentaje |-> Formato1f(loc.porcentaje) \o "%",
                      publico_objetivo |-> FormatoMiles(loc.total_po),
                      cargas_presenze |-> FormatoMiles(loc.analisis),
                      grafico_barras |-> loc.fig_barras,
                      grafico_lineas |-> loc.fig_lineas,
                      grafico_barras_aliados |-> loc.fig_barras_aliados,
                      filtro_ciudad |-> c.val, filtro_aliado |-> a.val,
                      filtro_region |-> r.val]]

\* Mutant: the option lists are taken from the filtered frame.
responder_desde_la_vista(d, loc) ==
    retorno(loc, opciones(loc.df_filtrado, c_ciudad), opciones(loc.df_filtrado, c_aliado),
            opciones(loc.df_filtrado, c_region))

\* Lines 199-219: the option lists from the module-level frame, then the
\* return of the nine outputs, or the except branch's.
responder(d, loc) ==
    retorno(loc, opciones(d, c_ciudad), opciones(d, c_aliado), opciones(d, c_region))

invocacion(k, r) ==
    [df |-> k.df, loc |-> k.loc, err |-> r.err, paso |-> r.paso, salida |-> r.salida]

hasta_el_retorno(k) == invocacion(k, responder(k.df, k.loc))

\* One whole invocation against module-level frame d.
actualizar_dashboard(d, sel) == hasta_el_retorno(calcular(d, sel))

(***************************************************************************)
(* Filter-change events.                                                   *)
(***************************************************************************)
Valores(vals, escalar) ==
    {Ninguno, Cadena(escalar)} \cup {Lista(l) : l \in SeqsHasta(vals, MaxSel)}

Selecciones ==
    [ciudad : Valores({"Bogotá", "Cali"}, "Bogotá"),
     aliado : Valores({"Aliado A", "Aliado B"}, "Aliado A"),
     region : Valores({"Centro", "NoSuchRegion"}, "Centro")]

\* The events of the concurrent model.
SeleccionesConc ==
    [ciudad : {Ninguno, Lista(<<"Bogotá">>), Cadena("Bogotá")},
     aliado : {Ninguno},
     region : {Ninguno, Lista(<<"Centro">>)}]

SinSeleccion == [ciudad |-> Ninguno, aliado |-> Ninguno, region |-> Ninguno]

\* The query outcomes of the concurrent model: no connection, and three
\* result sets with exact labels.
EntradasConc ==
    {[DATABASE_URL |-> TRUE, RENDER |-> FALSE, sql |-> q] :
        q \in {SqlFalla} \cup
              {ResultSet([i \in 1..5 |-> 0], rows) :
                 rows \in { << <<N(150), N(1000), S("Bogotá"), S("Aliado A"), S("Centro")>> >>,
                            << <<N(150), N(1000), S("Bogotá"), S("Aliado A"), S("Centro")>>,
                               <<N(10), N(40), NULO, S("Aliado A"), S("Valle")>> >>,
                            << <<N(0), N(0), S("Cali"), S("Aliado B"), S("Valle")>>,
                               <<N(50), N(20), S("Bogotá"), S("Aliado B"), S("Centro")>> >> }}}

Hilos == 1..NumHilos

Libre ==
    [pc |-> "libre", sel |-> SinSeleccion, loc |-> SinLocales,
     err |-> "", paso |-> "", salida |-> SinSalida]

(***************************************************************************)
(* Spec: the module is imported (line 69 runs cargar_datos once), then one *)
(* worker serves filter-change events one after another, each callback     *)
(* running to its return before the next event is taken.                   *)
(***************************************************************************)
Init ==
    /\ fase = "import"
    /\ entrada = EntradaConsumida
    /\ df = FrameSinCargar
    /\ df0 = FrameSinCargar
    /\ req = [h \in Hilos |-> Libre]

\* Line 69, against whatever environment and database the process meets.
CargarDatos ==
    /\ fase = "import"
    /\ \E e \in Entradas(MaxFilas) :
          /\ df' = cargar_datos(e)
          /\ df0' = cargar_datos(e)
    /\ fase' = "sirviendo"
    /\ UNCHANGED <<entrada, req>>

Atender(sel, r) ==
    /\ df' = r.df
    /\ req' = [req EXCEPT ![1] =
                 [pc |-> "listo", sel |-> sel, loc |-> r.loc,
                  err |-> r.err, paso |-> r.paso, salida |-> r.salida]]

\* One filter-change event handled from receipt to return.
ActualizarDashboard ==
    /\ fase = "sirviendo"
    /\ req[1].pc = "libre"
    /\ \E sel \in Selecciones : Atender(sel, actualizar_dashboard(df, sel))
    /\ UNCHANGED <<fase, entrada, df0>>

\* The response has been sent; the worker is free again.
Entregar(h) ==
    /\ req[h].pc = "listo"
    /\ req' = [req EXCEPT ![h] = Libre]
    /\ UNCHANGED <<fase, entrada, df, df0>>

Next ==
    \/ CargarDatos
    \/ ActualizarDashboard
    \/ \E h \in Hilos : Entregar(h)

Spec == Init /\ [][Next]_vars

(***************************************************************************)
(* SpecCarga: cargar_datos alone, the environment and the query outcome    *)
(* fixed in the initial state and kept for comparison with the result.     *)
(***************************************************************************)
InitCarga ==
    /\ fase = "import"
    /\ entrada \in Entradas(MaxFilasCarga)
    /\ df = FrameSinCargar
    /\ df0 = FrameSinCargar
    /\ req = [h \in Hilos |-> Libre]

CargarDatosEntrada ==
    /\ fase = "import"
    /\ df' = cargar_datos(entrada)
    /\ df0' = cargar_datos(entrada)
    /\ fase' = "sirviendo"
    /\ UNCHANGED <<entrada, req>>

NextCarga == CargarDatosEntrada

SpecCarga == InitCarga /\ [][NextCarga]_vars

(***************************************************************************)
(* SpecConc: the server dispatches callbacks to NumHilos threads.  A       *)
(* thread reads the module-level df twice, at line 174 and at lines        *)
(* 200-202; everything else it touches is local.                           *)
(***************************************************************************)
CargarDatosConc ==
    /\ fase = "import"
    /\ \E e \in EntradasConc :
          /\ df' = cargar_datos(e)
          /\ df0' = cargar_datos(e)
    /\ fase' = "sirviendo"
    /\ UNCHANGED <<entrada, req>>

Recibir(h) ==
    /\ fase = "sirviendo"
    /\ req[h].pc = "libre"
    /\ \E sel \in SeleccionesConc :
          req' = [req EXCEPT ![h] = [Libre EXCEPT !.pc = "recibido", !.sel = sel]]
    /\ UNCHANGED <<fase, entrada, df, df0>>

Calculado(h, k) ==
    /\ df' = k.df
    /\ req' = [req EXCEPT ![h].pc = "calculado", ![h].loc = k.loc]

Calcular(h) ==
    /\ req[h].pc = "recibido"
    /\ Calculado(h, calcular(df, req[h].sel))
    /\ UNCHANGED <<fase, entrada, df0>>

Respondido(h, r) ==
    req' = [req EXCEPT ![h].pc = "listo", ![h].err = r.err,
                       ![h].paso = r.paso, ![h].salida = r.salida]

Responder(h) ==
    /\ req[h].pc = "calculado"
    /\ Respondido(h, responder(df, req[h].loc))
    /\ UNCHANGED <<fase, entrada, df, df0>>

NextConc ==
    \/ CargarDatosConc
    \/ \E h \in Hilos : Recibir(h)
    \/ \E h \in Hilos : Calcular(h)
    \/ \E h \in Hilos : Responder(h)
    \/ \E h \in Hilos : Entregar(h)

SpecConc == Init /\ [][NextConc]_vars

(***************************************************************************)
(* Properties.                                                             *)
(***************************************************************************)
Listos == {h \in Hilos : req[h].pc = "listo"}

\* A selection as the dropdowns produce it: None or a list in each dimension.
BienFormada(sel) ==
    /\ sel.ciudad.t \in {"none", "list"}
    /\ sel.aliado.t \in {"none", "list"}
    /\ sel.region.t \in {"none", "list"}

Restringe(v) == v.t = "list" /\ v.l # <<>>

SinRestriccion(sel) ==
    BienFormada(sel) /\ ~Restringe(sel.ciudad) /\ ~Restringe(sel.aliado) /\ ~Restringe(sel.region)

\* The cell of a record of frame d in the named column is one of the
\* selected values, or the dimension is unrestricted.
Admite(d, row, name, v) ==
    Restringe(v) => \E i \in DOMAIN v.l : row[ColIndex(d, name)] = S(v.l[i])

Pasa(d, row, sel) ==
    /\ Admite(d, row, c_ciudad, sel.ciudad)
    /\ Admite(d, row, c_aliado, sel.aliado)
    /\ Admite(d, row, c_region, sel.region)

RECURSIVE Subsecuencia(_, _, _)
Subsecuencia(d, rows, sel) ==
    IF rows = <<>> THEN <<>>
    ELSE (IF Pasa(d, Head(rows), sel) THEN <<Head(rows)>> ELSE <<>>)
         \o Subsecuencia(d, Tail(rows), sel)

ListaOrdenadaDe(opts, cells) ==
    /\ {opts[i].value : i \in DOMAIN opts} = Range(cells)
    /\ \A i \in DOMAIN opts : opts[i].label = opts[i].value
    /\ \A i, j \in DOMAIN opts :
          i < j => /\ opts[i].value.t = "str"
                   /\ opts[j].value.t = "str"
                   /\ Rango(opts[i].value.s) < Rango(opts[j].value.s)

OpcionesDeLaBase(o) ==
    /\ ListaOrdenadaDe(o.filtro_ciudad, Col(df0, c_ciudad))
    /\ ListaOrdenadaDe(o.filtro_aliado, Col(df0, c_aliado))
    /\ ListaOrdenadaDe(o.filtro_region, Col(df0, c_region))

OpcionesVacias(o) ==
    o.filtro_ciudad = <<>> /\ o.filtro_aliado = <<>> /\ o.filtro_region = <<>>

\* C2 as claimed: the three option lists a callback returns are the sorted
\* distinct values of the base dataset's columns, whatever the selection
\* and however the recompute ended.
C2_OpcionesSiempreDeLaBase ==
    \A h \in Listos : BienFormada(req[h].sel) => OpcionesDeLaBase(req[h].salida)

\* C2 as amended: a callback that returns normally returns the sorted
\* distinct values of the base dataset's columns, whatever its selection; one
\* that ends in the except branch returns three empty lists.
C2_OpcionesDeLaBaseOVacias ==
    \A h \in Listos :
        /\ req[h].err = "" => OpcionesDeLaBase(req[h].salida)
        /\ req[h].err # "" => OpcionesVacias(req[h].salida)

\* A narrowing selection whose callback still offers every city.
C2_Testigo ==
    \E h \in Listos :
        /\ req[h].err = ""
        /\ Restringe(req[h].sel.ciudad)
        /\ Len(req[h].loc.df_filtrado.rows) < Len(df0.rows)
        /\ Len(req[h].salida.filtro_ciudad) >= 2

\* A figure without traces or layout.
SinDatos(fig) == fig.tipo = "" /\ fig.x = <<>> /\ fig.y = <<>> /\ fig.text = <<>> /\ fig.title = ""

TodoPorDefecto(o) ==
    /\ o.resultado_porcentaje = "0%" /\ o.publico_objetivo = "0" /\ o.cargas_presenze = "0"
    /\ SinDatos(o.grafico_barras) /\ SinDatos(o.grafico_lineas)
    /\ SinDatos(o.grafico_barras_aliados)
    /\ OpcionesVacias(o)

\* The outputs only the except branch produces: a percentage without
\* decimals, a figure without layout.
AlgoPorDefecto(o) ==
    \/ o.resultado_porcentaje = "0%"
    \/ SinDatos(o.grafico_barras) \/ SinDatos(o.grafico_lineas)
    \/ SinDatos(o.grafico_barras_aliados)

\* C3: a callback in which a step raised returns the nine defaults, and a
\* returned render holds a default output only if all nine are defaults.
C3_ErrorDaRenderPorDefecto ==
    \A h \in Listos :
        /\ req[h].err # "" => TodoPorDefecto(req[h].salida)
        /\ AlgoPorDefecto(req[h].salida) => TodoPorDefecto(req[h].salida)
        /\ req[h].err = "" => ~AlgoPorDefecto(req[h].salida)

\* The option lists raise after the metrics and charts were computed from a
\* non-empty view.
C3_Testigo ==
    \E h \in Listos :
        /\ req[h].err # ""
        /\ req[h].paso = "opciones"
        /\ req[h].loc.analisis > 0
        /\ req[h].loc.fig_lineas.x # <<>>

\* The three sample records, with the porcentaje column line 63 adds.
EsDatasetDeRespaldo(d) ==
    /\ Len(d.rows) = 3
    /\ Col(d, c_analisis) = <<N(150), N(200), N(180)>>
    /\ Col(d, c_total_po) = <<N(1000), N(1200), N(1500)>>
    /\ Col(d, c_ciudad) = <<S("Bogotá"), S("Medellín"), S("Cali")>>
    /\ Col(d, c_aliado) = <<S("Aliado A"), S("Aliado B"), S("Aliado C")>>
    /\ Col(d, c_region) = <<S("Centro"), S("Antioquia"), S("Valle")>>
    /\ d.columns = <<c_analisis, c_total_po, c_ciudad, c_aliado, c_region, c_porcentaje>>

SinCadenaDeConexion(e) == ~e.DATABASE_URL /\ e.RENDER

FallaConsulta(e) == ~e.sql.ok

\* A required label is not, as spelled, among the result set's columns.
FaltaColumna(e) ==
    e.sql.ok /\ \E c \in required_columns : \A i \in DOMAIN e.sql.columns : e.sql.columns[i] # c

\* A required label is missing even after lower-casing and trimming.
FaltaColumnaNormalizada(e) ==
    e.sql.ok /\ \E c \in required_columns :
                   \A i \in DOMAIN e.sql.columns : str_strip(str_lower(e.sql.columns[i])) # c

\* Line 47 cannot be computed: text in a summed column, or no rows.
FallaLimpieza(e) ==
    /\ e.sql.ok
    /\ \/ e.sql.rows = <<>>
       \/ \E r \in DOMAIN e.sql.rows, i \in DOMAIN e.sql.columns :
             /\ e.sql.columns[i] \in {c_analisis, c_total_po}
             /\ e.sql.rows[r][i].t = "str"

FallaPrimaria(e) ==
    SinCadenaDeConexion(e) \/ FallaConsulta(e) \/ FaltaColumna(e) \/ FallaLimpieza(e)

\* C4: cargar_datos returns a dataset to line 69 whatever it meets, and after
\* any failure of the primary path (no production connection string, failed
\* query, missing required column, failed cleaning) that dataset is the
\* three sample records, the same for a schema failure as for a connection
\* failure.
C4_CargaNuncaFalla ==
    fase = "sirviendo" =>
        /\ required_columns \subseteq Range(df.columns)
        /\ df.rows # <<>>
        /\ FallaPrimaria(entrada) => EsDatasetDeRespaldo(df)

\* A result set that arrived with rows and lacks a required column.
C4_Testigo ==
    /\ fase = "sirviendo"
    /\ entrada.sql.rows # <<>>
    /\ FaltaColumna(entrada)
    /\ ~FallaLimpieza(entrada)
    /\ EsDatasetDeRespaldo(df)

\* The query result as the base dataset: its rows, under the normalized
\* labels.
EsResultadoDeLaConsulta(d, q) ==
    /\ Len(d.rows) = Len(q.rows)
    /\ \A i \in DOMAIN q.columns :
          Col(d, str_strip(str_lower(q.columns[i]))) = [r \in DOMAIN q.rows |-> q.rows[r][i]]

\* C5: a result set that has the five required labels once they are
\* lower-cased and trimmed (and can be cleaned) is returned as the base
\* dataset, with normalized labels.
C5_ColumnasSinDistinguirMayusculas ==
    (/\ fase = "sirviendo"
     /\ ~SinCadenaDeConexion(entrada)
     /\ entrada.sql.ok
     /\ ~FaltaColumnaNormalizada(entrada)
     /\ ~FallaLimpieza(entrada))
        => EsResultadoDeLaConsulta(df, entrada.sql)

\* C6 as claimed: with the sample records as base and nothing selected the
\* callback reports 3700, 530 and a percentage within 0.005 of 8.97.
C6_RespaldoSinFiltro_8_97 ==
    \A h \in Listos :
        (EsDatasetDeRespaldo(df0) /\ SinRestriccion(req[h].sel)) =>
            /\ req[h].loc.total_po = 3700
            /\ req[h].loc.analisis = 530
            /\ 8965 * req[h].loc.porcentaje.d <= 1000 * req[h].loc.porcentaje.n
            /\ 1000 * req[h].loc.porcentaje.n < 8975 * req[h].loc.porcentaje.d

\* C6 as amended: with the sample records as base and nothing selected the
\* callback reports 3700 ("3,700"), 530 ("530") and a percentage within 0.005
\* of 14.32 (530 / 3700 * 100), shown as "14.3%".
C6_RespaldoSinFiltro_14_32 ==
    \A h \in Listos :
        (EsDatasetDeRespaldo(df0) /\ SinRestriccion(req[h].sel)) =>
            /\ req[h].loc.total_po = 3700
            /\ req[h].loc.analisis = 530
            /\ 14315 * req[h].loc.porcentaje.d <= 1000 * req[h].loc.porcentaje.n
            /\ 1000 * req[h].loc.porcentaje.n < 14325 * req[h].loc.porcentaje.d
            /\ req[h].salida.publico_objetivo = "3,700"
            /\ req[h].salida.cargas_presenze = "530"
            /\ req[h].salida.resultado_porcentaje = "14.3%"

\* The sample records as base and a callback given None, [] and None.
C6_Testigo ==
    \E h \in Listos :
        /\ EsDatasetDeRespaldo(df0)
        /\ req[h].sel.ciudad = Ninguno
        /\ req[h].sel.aliado = Lista(<<>>)
        /\ req[h].sel.region = Ninguno
        /\ req[h].err = ""

\* Every record of d has 0 <= analisis <= total_po.
RegistrosAcotados(d) ==
    \A i \in DOMAIN d.rows :
        /\ 0 <= Col(d, c_analisis)[i].n
        /\ Col(d, c_analisis)[i].n <= Col(d, c_total_po)[i].n

\* p is the finite number a / t * 100.
EsCociente(p, a, t) == p.t \in {"int", "float"} /\ p.n * t = 100 * a * p.d

\* C7: for a well-formed selection the metrics are computed without an
\* exception or a division by zero; the percentage is analisis / total_po *
\* 100 over the view when the view's total_po is positive and exactly 0
\* otherwise (the empty view included), and it lies in [0, 100] when every
\* base record has 0 <= analisis <= total_po.
C7_PorcentajeAcotado ==
    \A h \in Listos :
        BienFormada(req[h].sel) =>
            /\ req[h].loc.err = ""
            /\ req[h].loc.total_po = SumaInt(Col(req[h].loc.df_filtrado, c_total_po))
            /\ req[h].loc.analisis = SumaInt(Col(req[h].loc.df_filtrado, c_analisis))
            /\ req[h].loc.total_po > 0 =>
                  EsCociente(req[h].loc.porcentaje, req[h].loc.analisis, req[h].loc.total_po)
            /\ req[h].loc.total_po = 0 =>
                  (req[h].loc.porcentaje.t = "int" /\ req[h].loc.porcentaje.n = 0)
            /\ RegistrosAcotados(df0) =>
                  /\ req[h].loc.porcentaje.t \in {"int", "float"}
                  /\ 0 <= req[h].loc.porcentaje.n
                  /\ req[h].loc.porcentaje.n <= 100 * req[h].loc.porcentaje.d

\* A non-empty view whose total_po is 0, in a dataset of bounded records
\* that also yields a positive percentage.
C7_Testigo ==
    \E h \in Listos :
        /\ BienFormada(req[h].sel)
        /\ RegistrosAcotados(df0)
        /\ req[h].loc.df_filtrado.rows # <<>>
        /\ req[h].loc.total_po = 0
        /\ SumaInt(Col(df0, c_total_po)) > 0

\* The keys of a grouped result are the distinct cells of the view's column
\* and its sums add up to total.
GruposCubren(claves, sumas, celdas, total) ==
    /\ Range(claves) = Range(celdas)
    /\ Len(claves) = Cardinality(Range(celdas))
    /\ SumaInt(sumas) = total

\* C8: in each of the three aggregations of a computed view the group keys
\* are exactly the distinct values of the grouping column in the view and
\* the per-group sums of analisis add up to the view's analyzed_total.
C8_GruposYTotal ==
    \A h \in Listos :
        req[h].loc.err = "" =>
            /\ GruposCubren(req[h].loc.fig_barras.y, req[h].loc.fig_barras.x,
                            Col(req[h].loc.df_filtrado, c_ciudad), req[h].loc.analisis)
            /\ GruposCubren(req[h].loc.fig_lineas.x, req[h].loc.fig_lineas.y,
                            Col(req[h].loc.df_filtrado, c_aliado), req[h].loc.analisis)
            /\ GruposCubren(req[h].loc.fig_barras_aliados.x,
                            Col(df_porcentaje_de(req[h].loc.df_filtrado), c_analisis),
                            Col(req[h].loc.df_filtrado, c_aliado), req[h].loc.analisis)

\* C9: once loaded, the module-level dataset stays what cargar_datos
\* returned, through every callback, also one that ends in the except branch.
C9_BaseInmutable ==
    fase = "sirviendo" => df = df0

\* A callback that narrowed its view and then ended in the except branch.
C9_Testigo ==
    \E h \in Listos :
        /\ req[h].err # ""
        /\ Restringe(req[h].sel.ciudad)
        /\ Len(req[h].loc.df_filtrado.rows) < Len(df0.rows)
        /\ df = df0

\* C10: the outputs a thread returns for an event are those its selection
\* yields when computed alone on the dataset as loaded, whatever the other
\* threads did meanwhile.
C10_SalidaIndependiente ==
    \A h \in Listos : req[h].salida = actualizar_dashboard(df0, req[h].sel).salida

\* Two threads past their reads of df with different selections, one of them
\* narrowing its view.
C10_Testigo ==
    \E h1, h2 \in Hilos :
        /\ req[h1].pc = "listo"
        /\ req[h2].pc = "calculado"
        /\ req[h1].sel # req[h2].sel
        /\ Restringe(req[h1].sel.ciudad)
        /\ req[h1].err = ""
        /\ Len(req[h1].loc.df_filtrado.rows) < Len(df0.rows)

====
